---- MODULE Spec2Model ----
(***************************************************************************)
(* State-machine model of master_file_app.py (UCES Margin Analyzer).       *)
(*                                                                         *)
(* One Streamlit session: st.session_state.df (the Record Store),          *)
(* st.session_state.source_filename, st.session_state.edit_index, the      *)
(* filter widgets, and the durable file uces_app_data.json.  Every action  *)
(* is one script run triggered by one click, including the save_data()     *)
(* and st.rerun() the handler ends with.                                   *)
(*                                                                         *)
(* Representation choices:                                                 *)
(*  - money is held in integer cents, Margin% in hundredths of a percent   *)
(*    (so round(margin, 2) is an integer rounding, done half-to-even);     *)
(*  - positions are 0-based as in the code, sequences are 1-based, so      *)
(*    position i is element i + 1;                                         *)
(*  - a "Date of PR" cell is [k, v]: k = "date" (datetime.date), "ts"      *)
(*    (pandas Timestamp), "str" (text), v the day number; [k |-> "str",    *)
(*    v |-> 0] is the empty string;                                        *)
(*  - text that is searched is spelled out by Chars, other text is atomic; *)
(*  - map_ui is what the last run left of the column-mapping widgets: the  *)
(*    name of the sheet they map ("" when they are not on the page) and    *)
(*    whether Apply Mapping & Load has been clicked and its run is due;    *)
(*  - selected remembers the record that Edit Selected chose (<< >> when   *)
(*    nothing is being edited); the code keeps only its position.         *)
(***************************************************************************)
EXTENDS Integers, Sequences, FiniteSets, TLC

VARIABLES df, source_filename, edit_index, data_file, filters, last_op,
          map_ui, selected

vars == <<df, source_filename, edit_index, data_file, filters, last_op,
          map_ui, selected>>

\* ------------------------------------------------------------------ bounds
MaxRows == 2
CalcRows == 1
DelRows == 3

\* ------------------------------------------------------------- basic values
\* st.session_state.edit_index = None (no position is -1)
None == -1

Today == 2

RangeOf(s) == {s[i] : i \in 1..Len(s)}

EmptyStr == [k |-> "str", v |-> 0]

DefaultFilename == "master_file_data.xlsx"

\* init_df(): the canonical columns, in order, and no rows
Required ==
    << "Quotation No", "Po Huawei", "Linked PR Subcon", "Date of PR",
       "Vendor Name", "Project", "Site ID", "Line Items",
       "Po Huawei (Unit Price)", "Requested Qty", "Total",
       "Po Subcon (Unit Price)", "Qty", "Sub Total", "Profit", "Margin%",
       "Status", "Margin Reason" >>

init_df == [cols |-> Required, rows |-> << >>]

PROJECT_KEYS ==
    << "---", "BD", "CME", "CS", "HQ", "IBS", "MISC", "MS", "RNO", "SOLAR",
       "TI", "TINSOL" >>

StatusOptions == << "Waiting", "Process", "Rejected", "Claimed" >>

\* str.strip() on the margin-reason texts the model uses
Strip(s) ==
    CASE s = " late " -> "late"
      [] s = "  " -> ""
      [] OTHER -> s

\* ------------------------------------------------------- margin computation
\* round(x, 2) of x = num / den percent, in hundredths, half to even
RoundHalfEven(num, den) ==
    LET n == IF den < 0 THEN -num ELSE num
        d == IF den < 0 THEN -den ELSE den
        q == n \div d
        r == n - q * d
    IN  IF 2 * r < d THEN q
        ELSE IF 2 * r > d THEN q + 1
        ELSE IF q % 2 = 0 THEN q ELSE q + 1

\* margin >= pct, for the unrounded margin of line 335
MarginAtLeast(total, profit, pct) ==
    IF total = 0 THEN 0 >= pct
    ELSE IF total > 0 THEN profit * 100 >= pct * total
    ELSE profit * 100 <= pct * total

\* a margin that is cut, not rounded, to 2 decimals
TruncatedMargin(total, profit) ==
    IF total # 0 THEN (profit * 10000) \div total ELSE 0

\* round(margin, 2) of line 364, in hundredths of a percent
RoundedMargin(total, profit) ==
    IF total # 0 THEN RoundHalfEven(profit * 10000, total) ELSE 0

\* the AUTO-FLAG LOGIC of lines 338-343, on the unrounded margin
AutoFlag(total, profit) ==
    IF MarginAtLeast(total, profit, 30) THEN "Healthy"
    ELSE IF MarginAtLeast(total, profit, 20) THEN "Below Target"
    ELSE "Loss Risk"

\* the three-way bucket of a stored Margin% (filter 428-433, colouring
\* 442-450 and 582-592), in hundredths of a percent
Bucket(m) ==
    IF m >= 3000 THEN "Healthy"
    ELSE IF m >= 2000 THEN "Below Target"
    ELSE "Loss Risk"

\* new_row of lines 332-367 from the submitted form values f
NewRow(f) ==
    LET total_huawei == f.po_huawei_price * f.req_qty
        total_subcon == f.po_subcon_price * f.subcon_qty
        profit == total_huawei - total_subcon
    IN  [c \in RangeOf(Required) |->
           CASE c = "Quotation No" -> f.quotation_no
             [] c = "Po Huawei" -> f.po_huawei
             [] c = "Linked PR Subcon" -> f.linked_pr
             [] c = "Date of PR" -> f.date_pr
             [] c = "Vendor Name" -> f.vendor_name
             [] c = "Project" -> f.project
             [] c = "Site ID" -> f.site_id
             [] c = "Line Items" -> f.final_line_item
             [] c = "Po Huawei (Unit Price)" -> f.po_huawei_price
             [] c = "Requested Qty" -> f.req_qty
             [] c = "Total" -> total_huawei
             [] c = "Po Subcon (Unit Price)" -> f.po_subcon_price
             [] c = "Qty" -> f.subcon_qty
             [] c = "Sub Total" -> total_subcon
             [] c = "Profit" -> profit
             [] c = "Margin%" -> RoundedMargin(total_huawei, profit)
             [] c = "Status" ->
                  IF Strip(f.margin_reason) # "" THEN Strip(f.margin_reason)
                  ELSE AutoFlag(total_huawei, profit)
             [] c = "Margin Reason" -> f.margin_reason]

\* ------------------------------------------------------------- DataFrame
\* a DataFrame is [cols, rows]: the column labels in order and the rows,
\* each a function from the column labels to cells; the index is always the
\* RangeIndex 0..n-1 (concat ignore_index, reset_index, read_excel, the
\* DataFrame constructor), so labels and positions coincide
NRows(d) == Len(d.rows)

\* DataFrame.empty: no rows or no columns
IsEmpty(d) == Len(d.rows) = 0 \/ Len(d.cols) = 0

\* pd.concat([df, pd.DataFrame([new_row])], ignore_index=True), line 374:
\* the columns are the union in order of appearance
ConcatRow(d, row) ==
    [cols |-> d.cols \o SelectSeq(Required, LAMBDA c : c \notin RangeOf(d.cols)),
     rows |-> Append(d.rows, row)]

\* df.iloc[i] = new_row, line 370: the dict is aligned to the columns by key
SetRow(d, i, row) ==
    [d EXCEPT !.rows[i + 1] = [c \in RangeOf(d.cols) |-> row[c]]]

\* a drop that removes the row after the selected one
DropRowOffByOne(d, label) ==
    IF label + 2 \in 1..Len(d.rows)
    THEN [d EXCEPT !.rows =
            [j \in 1..(Len(d.rows) - 1) |->
               IF j < label + 2 THEN d.rows[j] ELSE d.rows[j + 1]]]
    ELSE d

\* df.drop(label) then reset_index(drop=True), lines 512-513; drop raises
\* KeyError on a label that is not in the index and nothing is assigned
DropRow(d, label) ==
    IF label + 1 \in 1..Len(d.rows)
    THEN [d EXCEPT !.rows =
            [j \in 1..(Len(d.rows) - 1) |->
               IF j < label + 1 THEN d.rows[j] ELSE d.rows[j + 1]]]
    ELSE d

\* ------------------------------------------------------------ persistence
\* Series.astype(str) on a "Date of PR" cell, line 62: a date and a
\* midnight Timestamp both print as the ISO text of their day
AsTypeStr(cell) == [k |-> "str", v |-> cell.v]

\* df_to_save of lines 59-65
ToSave(d) ==
    [d EXCEPT !.rows =
       [i \in 1..Len(d.rows) |->
          [c \in RangeOf(d.cols) |->
             IF c = "Date of PR" THEN AsTypeStr(d.rows[i][c])
             ELSE d.rows[i][c]]]]

\* DataFrame.to_dict(orient='records'), line 68: one dict per row, its
\* keys the columns in order; a frame without rows gives the empty list
ToDictRecords(d) ==
    [i \in 1..Len(d.rows) |-> [keys |-> d.cols, vals |-> d.rows[i]]]

NoFile == [exists |-> FALSE, parses |-> FALSE, df |-> << >>, source_filename |-> ""]

\* a file whose text json.load() rejects: open(DATA_FILE, "w") of line 72
\* empties the file before json.dump() writes, so a write that stops part
\* way leaves such a text
Unparseable == [exists |-> TRUE, parses |-> FALSE, df |-> << >>, source_filename |-> ""]

\* what save_data() leaves in uces_app_data.json, lines 57-73
Written(d, name) ==
    [exists |-> TRUE, parses |-> TRUE, df |-> ToDictRecords(ToSave(d)),
     source_filename |-> name]

\* pd.DataFrame(data['df']), line 83: the columns are the keys of the dicts
FromRecords(recs) ==
    [cols |-> IF Len(recs) = 0 THEN << >> ELSE recs[1].keys,
     rows |-> [i \in 1..Len(recs) |-> recs[i].vals]]

\* load_data(), lines 77-90 ("None" when there is no file, and when
\* json.load() raises)
load_data(file) ==
    IF file.exists /\ file.parses
    THEN [found |-> TRUE, df |-> FromRecords(file.df),
          source_filename |-> file.source_filename]
    ELSE [found |-> FALSE, df |-> init_df, source_filename |-> DefaultFilename]

\* --------------------------------------------------------------- the form
\* the days of the model: 1 is a day after the 12th of its month, 2 (today)
\* is a day up to the 12th, and 3 is day 2 with day and month exchanged
SwapDay(v) ==
    CASE v = 2 -> 3
      [] v = 3 -> 2
      [] OTHER -> v

\* SAFE DATE RETRIEVAL, lines 240-256: a Timestamp gives its date, a date is
\* kept, and text is parsed with dayfirst=True: the empty string gives NaT
\* and today stays; the ISO text that save_data wrote is read year-month-day
\* by the pandas releases that try ISO 8601 first, and year-day-month, when
\* the day is at most 12, by those that follow dateutil's dayfirst rule, so
\* both outcomes are kept
SafeDate(cell) ==
    CASE cell.k = "str" ->
           IF cell.v = 0 THEN {[k |-> "date", v |-> Today]}
           ELSE {[k |-> "date", v |-> cell.v], [k |-> "date", v |-> SwapDay(cell.v)]}
      [] cell.k = "ts" -> {[k |-> "date", v |-> cell.v]}
      [] OTHER -> {cell}

\* the values the form shows for row_data when no widget is touched:
\* default_vals of lines 259-274, safe_date_val being date, through the
\* selectbox indices of lines 305-306 and 311-312
EditDefaults(row, date) ==
    [quotation_no |-> row["Quotation No"],
     po_huawei |-> row["Po Huawei"],
     linked_pr |-> row["Linked PR Subcon"],
     date_pr |-> date,
     vendor_name |-> row["Vendor Name"],
     site_id |-> row["Site ID"],
     status |-> IF row["Status"] \in RangeOf(StatusOptions)
                THEN row["Status"] ELSE StatusOptions[1],
     project |-> IF row["Project"] # "---" /\ row["Project"] \in RangeOf(PROJECT_KEYS)
                 THEN row["Project"] ELSE PROJECT_KEYS[1],
     final_line_item |-> row["Line Items"],
     po_huawei_price |-> row["Po Huawei (Unit Price)"],
     req_qty |-> row["Requested Qty"],
     po_subcon_price |-> row["Po Subcon (Unit Price)"],
     subcon_qty |-> row["Qty"],
     margin_reason |-> row["Margin Reason"]]

\* ADD MODE defaults, lines 279-285
AddDefaults ==
    [quotation_no |-> "", po_huawei |-> "", linked_pr |-> "",
     date_pr |-> [k |-> "date", v |-> Today],
     vendor_name |-> "", site_id |-> "", status |-> "Waiting",
     project |-> "---", final_line_item |-> "",
     po_huawei_price |-> 0, req_qty |-> 0, po_subcon_price |-> 0,
     subcon_qty |-> 0, margin_reason |-> ""]

\* line 231 raises IndexError when edit_index is no position of df, and
\* the script run stops there: nothing below line 231 is rendered
RenderOK == edit_index = None \/ edit_index \in 0..(NRows(df) - 1)

\* the form as it is shown, untouched (one value per outcome of the date
\* parse)
FormDefaults ==
    IF edit_index # None
    THEN { EditDefaults(df.rows[edit_index + 1], d) :
             d \in SafeDate(df.rows[edit_index + 1]["Date of PR"]) }
    ELSE {AddDefaults}

\* what the operator can submit: the form untouched, or any of the values
\* typed; no form is rendered when the run stops at line 231
FormChoices(typed) == IF RenderOK THEN typed \cup FormDefaults ELSE {}

Op(name, pos) == [op |-> name, pos |-> pos]

\* the mapping widgets are not on the page
NoMapUI == [file |-> "", clicked |-> FALSE]

NoSelection == << >>

\* ----------------------------------------------------------------- actions
\* a handler that leaves edit mode before it validates
SubmitFormLeavesEditMode(f, cap) ==
    /\ RenderOK
    /\ IF f.po_huawei = ""
       THEN /\ last_op' = Op("PO Huawei is required!", -1)
            /\ edit_index' = None
            /\ selected' = NoSelection
            /\ UNCHANGED <<df, source_filename, data_file, filters>>
       ELSE /\ IF edit_index # None
               THEN /\ df' = SetRow(df, edit_index, NewRow(f))
                    /\ last_op' = Op("Row updated successfully!", edit_index)
               ELSE /\ NRows(df) < cap
                    /\ df' = ConcatRow(df, NewRow(f))
                    /\ last_op' = Op("Entry added successfully!", NRows(df))
            /\ edit_index' = None
            /\ selected' = NoSelection
            /\ data_file' = Written(df', source_filename)
            /\ UNCHANGED <<source_filename, filters>>
    /\ map_ui' = NoMapUI

\* the data_form submit handler, lines 328-377
SubmitForm(f, cap) ==
    /\ RenderOK
    /\ IF f.po_huawei = ""
       THEN /\ last_op' = Op("PO Huawei is required!", -1)
            /\ UNCHANGED <<df, source_filename, edit_index, data_file, filters,
                           selected>>
       ELSE /\ IF edit_index # None
               THEN /\ df' = SetRow(df, edit_index, NewRow(f))
                    /\ edit_index' = None
                    /\ selected' = NoSelection
                    /\ last_op' = Op("Row updated successfully!", edit_index)
               ELSE /\ NRows(df) < cap
                    /\ df' = ConcatRow(df, NewRow(f))
                    /\ edit_index' = edit_index
                    /\ selected' = selected
                    /\ last_op' = Op("Entry added successfully!", NRows(df))
            /\ data_file' = Written(df', source_filename)
            /\ UNCHANGED <<source_filename, filters>>
    /\ map_ui' = NoMapUI

\* Cancel Edit, lines 326 and 379-381
CancelEdit ==
    /\ RenderOK
    /\ edit_index # None
    /\ edit_index' = None
    /\ selected' = NoSelection
    /\ map_ui' = NoMapUI
    /\ last_op' = Op("cancel", -1)
    /\ UNCHANGED <<df, source_filename, data_file, filters>>

\* Edit Selected, lines 498-507: the options are the rows of the current df
EditSelected(selected_index) ==
    /\ RenderOK
    /\ ~IsEmpty(df)
    /\ selected_index \in 0..(NRows(df) - 1)
    /\ edit_index' = selected_index
    /\ selected' = <<df.rows[selected_index + 1]>>
    /\ map_ui' = NoMapUI
    /\ last_op' = Op("edit", selected_index)
    /\ UNCHANGED <<df, source_filename, data_file, filters>>

\* Delete Selected, lines 509-515
DeleteSelected(selected_index) ==
    /\ RenderOK
    /\ ~IsEmpty(df)
    /\ selected_index \in 0..(NRows(df) - 1)
    /\ df' = DropRow(df, selected_index)
    /\ data_file' = Written(df', source_filename)
    /\ last_op' = Op("delete", selected_index)
    /\ map_ui' = NoMapUI
    /\ UNCHANGED <<source_filename, edit_index, filters, selected>>

\* Clear All Data, lines 621-625: no save_data() call
ClearAllData ==
    /\ RenderOK
    /\ df' = init_df
    /\ edit_index' = None
    /\ selected' = NoSelection
    /\ map_ui' = NoMapUI
    /\ last_op' = Op("clear", -1)
    /\ UNCHANGED <<source_filename, data_file, filters>>

\* ----------------------------------------------------------------- import
\* a column label of the uploaded sheet: text (its letters, and how they are
\* cased) or, for a numeric header cell, a number
StrLabel(name, casing) == [isstr |-> TRUE, name |-> name, casing |-> casing]

NumLabel(name) == [isstr |-> FALSE, name |-> name, casing |-> "canon"]

\* x.lower(), lines 155-156
Lower(label) == [label EXCEPT !.casing = "lower"]

CanonLabels == [i \in 1..Len(Required) |-> StrLabel(Required[i], "canon")]

\* line 156 applies .lower() to every uploaded label and raises
\* AttributeError on one that is not text
LowerRaises(header) == \E p \in 1..Len(header) : ~header[p].isstr

\* cols_match of lines 155-157
cols_match(header) ==
    \A i \in 1..Len(Required) :
        \E p \in 1..Len(header) : Lower(header[p]) = Lower(CanonLabels[i])

\* pd.to_datetime(errors='coerce') then fillna(""), lines 164-168, on a
\* "Date of PR" cell: a date cell stays a Timestamp, anything else is NaT
\* and then the empty string
ImportDate(cell) == IF cell.k = "ts" THEN cell ELSE EmptyStr

\* fillna("") on a text cell, line 168 ("NaN" is the blank cell)
FillNa(cell) == IF cell = "NaN" THEN "" ELSE cell

\* temp_df[required] of lines 160-170: the labels are renamed to the
\* canonical casing, so the canonical column c is the uploaded column with
\* the same letters; extra columns are not selected
Imported(file) ==
    [cols |-> Required,
     rows |-> [i \in 1..Len(file.data) |->
                [c \in RangeOf(Required) |->
                   IF c = "Date of PR" THEN ImportDate(file.data[i][c])
                   ELSE IF c \in {"Status", "Margin Reason"} THEN FillNa(file.data[i][c])
                   ELSE file.data[i][c]]]]

\* Load File, lines 147-217, in the run of its own click: the Apply Mapping
\* button of line 196 is rendered in this run for the first time and reads
\* False, so the mismatch branch only shows the mapping widgets
LoadFile(file) ==
    /\ IF LowerRaises(file.header)
       THEN /\ last_op' = Op("Error", -1)
            /\ map_ui' = NoMapUI
            /\ UNCHANGED <<df, source_filename, data_file>>
       ELSE IF cols_match(file.header) /\ Len(file.data) > 0
       THEN /\ df' = Imported(file)
            /\ source_filename' = file.name
            /\ data_file' = Written(df', source_filename')
            /\ map_ui' = NoMapUI
            /\ last_op' = Op("Loaded", Len(file.data))
       ELSE /\ last_op' = Op("Column Mismatch", -1)
            /\ map_ui' = [file |-> file.name, clicked |-> FALSE]
            /\ UNCHANGED <<df, source_filename, data_file>>
    /\ UNCHANGED <<edit_index, filters, selected>>

\* a data row of an uploaded sheet, keyed by the letters of its label
SheetRow(po, date, fin, total, sub_total, status, reason, project) ==
    [c \in RangeOf(Required) \cup {"Remarks", "2024"} |->
       CASE c = "Po Huawei" -> po
         [] c = "Date of PR" -> date
         [] c = "Vendor Name" -> "Ab"
         [] c = "Project" -> project
         [] c = "Site ID" -> "K1"
         [] c = "Po Huawei (Unit Price)" -> fin[1]
         [] c = "Requested Qty" -> fin[2]
         [] c = "Total" -> total
         [] c = "Po Subcon (Unit Price)" -> fin[3]
         [] c = "Qty" -> fin[4]
         [] c = "Sub Total" -> sub_total
         [] c = "Profit" -> total - sub_total
         [] c = "Margin%" -> RoundedMargin(total, total - sub_total)
         [] c = "Status" -> status
         [] c = "Margin Reason" -> reason
         [] OTHER -> ""]

RowA1 ==
    SheetRow("PO7", [k |-> "ts", v |-> 1], <<10000, 10, 6500, 10>>, 100000, 65000,
             "Process", "NaN", "BD")

RowA2 ==
    SheetRow("PO8", [k |-> "nan", v |-> 0], <<30000, 1, 21001, 1>>, 30000, 21001,
             "Below Target", "NaN", "XYZ")

\* a sheet whose Total was typed by hand: 1000 x 2 is not 500
RowB1 ==
    SheetRow("PO9", [k |-> "ts", v |-> 1], <<1000, 2, 900, 2>>, 500, 1800,
             "Waiting", "NaN", "BD")

\* the sheets the operator can upload
FileIds == 1..5

UploadedFile(n) ==
    CASE n = 1 -> \* the canonical header, two data rows
           [name |-> "a.xlsx", header |-> CanonLabels, data |-> <<RowA1, RowA2>>]
      [] n = 2 -> \* every canonical column in lower case, one extra column
           [name |-> "b.xlsx",
            header |-> [i \in 1..Len(Required) |-> StrLabel(Required[i], "lower")]
                          \o <<StrLabel("Remarks", "canon")>>,
            data |-> <<RowB1>>]
      [] n = 3 -> \* no "Margin Reason" column
           [name |-> "c.xlsx", header |-> SubSeq(CanonLabels, 1, Len(Required) - 1),
            data |-> <<RowA1>>]
      [] n = 4 -> \* the canonical header and no data row
           [name |-> "d.xlsx", header |-> CanonLabels, data |-> << >>]
      [] OTHER -> \* the canonical header and one column headed by a number
           [name |-> "e.xlsx", header |-> CanonLabels \o <<NumLabel("2024")>>,
            data |-> <<RowA1>>]

\* ------------------------------------------------------ the column mapping
\* the sheet in the file_uploader widget of line 145, by its name
FileNamed(name) ==
    UploadedFile(CHOOSE n \in FileIds : UploadedFile(n).name = name)

\* the selectbox defaults of lines 183-193: for each canonical column the
\* position, in "(Ignore/Missing)" followed by the uploaded labels, of the
\* first label that has its letters once blanks, brackets and case are set
\* aside, and 0, "(Ignore/Missing)", when there is none
default_idx(header) ==
    [col \in RangeOf(Required) |->
       LET hits == {j \in 1..Len(header) : header[j].name = col}
       IN  IF hits = {} THEN 0
           ELSE CHOOSE j \in hits : \A k \in hits : j <= k]

\* the value given to a column that is mapped to nothing, lines 202-209
TypedDefault(col) ==
    CASE col = "Status" -> "Process"
      [] col = "Project" -> "---"
      [] col = "Date of PR" -> EmptyStr
      [] col \in {"Po Huawei (Unit Price)", "Po Subcon (Unit Price)", "Total",
                  "Sub Total", "Profit", "Margin%"} -> 0
      [] col \in {"Requested Qty", "Qty"} -> 0
      [] OTHER -> ""

\* final_df of lines 197-209, built column by column in the order of
\* required: a mapped column is the uploaded column, as read; a scalar
\* assigned while the frame has no index makes a column without rows, and
\* the first uploaded column then sets the index, which leaves NaN in the
\* columns made before it; later scalars fill every row
final_df(file, mapping) ==
    LET mapped == {i \in 1..Len(Required) : mapping[Required[i]] # 0}
        first == IF mapped = {} THEN 0
                 ELSE CHOOSE i \in mapped : \A k \in mapped : i <= k
        n == IF mapped = {} THEN 0 ELSE Len(file.data)
        pos(col) == CHOOSE i \in 1..Len(Required) : Required[i] = col
    IN  [cols |-> Required,
         rows |-> [r \in 1..n |->
                    [col \in RangeOf(Required) |->
                       IF mapping[col] # 0
                       THEN file.data[r][file.header[mapping[col]].name]
                       ELSE IF pos(col) < first
                       THEN IF col = "Date of PR" THEN [k |-> "nan", v |-> 0] ELSE "NaN"
                       ELSE TypedDefault(col)]]]

\* the operator clicks Apply Mapping & Load, line 196, which is on the page
\* only after the run that found the mismatch
ClickApplyMapping ==
    /\ map_ui.file # ""
    /\ ~map_ui.clicked
    /\ map_ui' = [map_ui EXCEPT !.clicked = TRUE]
    /\ UNCHANGED <<df, source_filename, edit_index, data_file, filters, last_op,
                   selected>>

\* the script run that the click starts, lines 147-217: st.button reads
\* True only in the run started by its own click, so in this run load_btn
\* reads False and the block of line 149, the mapping and the button of
\* line 196 with it, is skipped
ApplyMappingRun ==
    /\ map_ui.clicked
    /\ LET file == FileNamed(map_ui.file)
           load_btn == FALSE
           map_load_btn == TRUE
       IN  IF /\ load_btn
              /\ ~LowerRaises(file.header)
              /\ ~(cols_match(file.header) /\ Len(file.data) > 0)
              /\ map_load_btn
           THEN /\ df' = final_df(file, default_idx(file.header))
                /\ source_filename' = file.name
                /\ data_file' = Written(df', source_filename')
                /\ last_op' = Op("Loaded mapped data!", -1)
           ELSE /\ last_op' = Op("map_load_btn", -1)
                /\ UNCHANGED <<df, source_filename, data_file>>
    /\ map_ui' = NoMapUI
    /\ UNCHANGED <<edit_index, filters, selected>>

\* the operator picks another source column in a selectbox of line 193: a
\* widget change starts a run too, in which load_btn reads False
ChangeMapping ==
    /\ map_ui.file # ""
    /\ ~map_ui.clicked
    /\ map_ui' = NoMapUI
    /\ last_op' = Op("map selectbox", -1)
    /\ UNCHANGED <<df, source_filename, edit_index, data_file, filters, selected>>

\* a new session of the process: Initialize Session State, lines 100-108,
\* and lines 222-223; the widgets are back at their defaults
NoFilters ==
    [status |-> "All", project |-> "", vendor |-> "", site |-> "", margin |-> "All"]

Restart ==
    /\ df' = load_data(data_file).df
    /\ source_filename' = load_data(data_file).source_filename
    /\ edit_index' = None
    /\ filters' = NoFilters
    /\ map_ui' = NoMapUI
    /\ selected' = NoSelection
    /\ last_op' = Op("start", -1)
    /\ UNCHANGED data_file

\* the durable file is left with a text that is no JSON document (a write
\* cut short after line 72 emptied the file, or damage from outside)
CorruptFile ==
    /\ data_file.exists
    /\ data_file.parses
    /\ data_file' = Unparseable
    /\ last_op' = Op("corrupt", -1)
    /\ UNCHANGED <<df, source_filename, edit_index, filters, map_ui, selected>>

\* ------------------------------------------------------------- the filters
\* the characters of the texts that are searched or searched for
Chars(s) ==
    CASE s = "" -> << >>
      [] s = "Ab" -> <<"A", "b">>
      [] s = "AB" -> <<"A", "B">>
      [] s = "A.b" -> <<"A", ".", "b">>
      [] s = "b" -> <<"b">>
      [] s = "." -> <<".">>
      [] s = "BD" -> <<"B", "D">>
      [] s = "bd" -> <<"b", "d">>
      [] s = "---" -> <<"-", "-", "-">>
      [] s = "XYZ" -> <<"X", "Y", "Z">>
      [] s = "K1" -> <<"K", "1">>
      [] s = "k" -> <<"k">>

\* case folding of one character (re.IGNORECASE)
Fold(ch) ==
    CASE ch = "A" -> "a"
      [] ch = "B" -> "b"
      [] ch = "D" -> "d"
      [] ch = "K" -> "k"
      [] ch = "X" -> "x"
      [] ch = "Y" -> "y"
      [] ch = "Z" -> "z"
      [] OTHER -> ch

\* a search that takes every character of the pattern literally
ContainsLiteral(text, pat) ==
    LET t == Chars(text)
        p == Chars(pat)
    IN  \E o \in 0..(Len(t) - Len(p)) :
            \A j \in 1..Len(p) : Fold(p[j]) = Fold(t[o + j])

\* Series.str.contains(pat, case=False, na=False), lines 420-426: pat is a
\* regular expression (regex=True is the default), searched anywhere in the
\* text; of the characters used here only "." is special: it matches any
\* one character
StrContains(text, pat) ==
    LET t == Chars(text)
        p == Chars(pat)
    IN  \E o \in 0..(Len(t) - Len(p)) :
            \A j \in 1..Len(p) : p[j] = "." \/ Fold(p[j]) = Fold(t[o + j])

\* pd.to_datetime(errors="coerce") on the view's "Date of PR", line 437
ViewDate(cell) ==
    IF cell.k = "str" /\ cell.v = 0 THEN [k |-> "nat", v |-> 0]
    ELSE [k |-> "ts", v |-> cell.v]

\* FILTER LOGIC, lines 412-437; no view is built for an empty df. The rows
\* of the view are entries [idx, row], idx the index label kept from df, and
\* filtered_df[mask] is a SelectSeq
FilterLogic(d, flt) ==
    IF IsEmpty(d) THEN << >>
    ELSE
    LET v0 == [i \in 1..Len(d.rows) |-> [idx |-> i - 1, row |-> d.rows[i]]]
        v1 == IF flt.status # "All"
              THEN SelectSeq(v0, LAMBDA e : e.row["Status"] = flt.status) ELSE v0
        v2 == IF flt.project # "" /\ Len(v1) > 0
              THEN SelectSeq(v1, LAMBDA e : StrContains(e.row["Project"], flt.project)) ELSE v1
        v3 == IF flt.vendor # "" /\ Len(v2) > 0
              THEN SelectSeq(v2, LAMBDA e : StrContains(e.row["Vendor Name"], flt.vendor)) ELSE v2
        v4 == IF flt.site # "" /\ Len(v3) > 0
              THEN SelectSeq(v3, LAMBDA e : StrContains(e.row["Site ID"], flt.site)) ELSE v3
        v5 == CASE flt.margin = "Loss Risk (<20%)" ->
                     SelectSeq(v4, LAMBDA e : e.row["Margin%"] < 2000)
                [] flt.margin = "Below Target (20-29%)" ->
                     SelectSeq(v4, LAMBDA e : e.row["Margin%"] >= 2000 /\ e.row["Margin%"] < 3000)
                [] flt.margin = "Healthy (>=30%)" ->
                     SelectSeq(v4, LAMBDA e : e.row["Margin%"] >= 3000)
                [] OTHER -> v4
    IN  [i \in 1..Len(v5) |->
           [idx |-> v5[i].idx,
            row |-> [v5[i].row EXCEPT !["Date of PR"] = ViewDate(@)]]]

\* the view of the current run
filtered_df == FilterLogic(df, filters)

\* the operator changes the filter widgets, lines 392-404; the run that
\* follows reads df and assigns nothing to the session state
SetFilters(flt) ==
    /\ RenderOK
    /\ flt # filters
    /\ filters' = flt
    /\ last_op' = Op("filter", -1)
    /\ map_ui' = NoMapUI
    /\ UNCHANGED <<df, source_filename, edit_index, data_file, selected>>

FilterChoices ==
    [status : {"All", "Process"},
     project : {"", "bd"},
     vendor : {"", "AB", "."},
     site : {"", "k"},
     margin : {"All", "Loss Risk (<20%)", "Below Target (20-29%)", "Healthy (>=30%)"}]

\* ----------------------------------------------------------- form inputs
MkForm(po, fin, reason, vendor, project, site, status) ==
    [quotation_no |-> "", po_huawei |-> po, linked_pr |-> "",
     date_pr |-> [k |-> "date", v |-> Today],
     vendor_name |-> vendor, site_id |-> site, status |-> status,
     project |-> project, final_line_item |-> "",
     po_huawei_price |-> fin[1], req_qty |-> fin[2],
     po_subcon_price |-> fin[3], subcon_qty |-> fin[4],
     margin_reason |-> reason]

\* <<client unit price, requested qty, subcon unit price, subcon qty>>, in
\* cents: the spec's example (35%) and a margin of 29.9966...%
LifeFin == { <<10000, 10, 6500, 10>>, <<30000, 1, 21001, 1>> }

\* what the operator types: nothing but a status, a record without a margin
\* reason, or a record with one
LifeForms ==
    { MkForm("", <<0, 0, 0, 0>>, "", "", "---", "", "Process") }
    \cup { MkForm("PO1", fin, "", "Ab", "BD", "K1", "Waiting") : fin \in LifeFin }
    \cup { MkForm("PO1", <<10000, 10, 6500, 10>>, " late ", "Ab", "BD", "K1", "Process") }

\* ------------------------------------------------------------ the machine
Init ==
    /\ df = init_df
    /\ source_filename = DefaultFilename
    /\ edit_index = None
    /\ data_file = NoFile
    /\ filters = NoFilters
    /\ map_ui = NoMapUI
    /\ selected = NoSelection
    /\ last_op = Op("start", -1)

Next ==
    \/ \E f \in FormChoices(LifeForms) : SubmitForm(f, MaxRows)
    \/ CancelEdit
    \/ \E i \in 0..(MaxRows - 1) : EditSelected(i)
    \/ \E i \in 0..(MaxRows - 1) : DeleteSelected(i)
    \/ ClearAllData
    \/ \E n \in FileIds : LoadFile(UploadedFile(n))
    \/ Restart

Spec == Init /\ [][Next]_vars

\* ---- the margin computation over a wide range of prices and quantities
Prices == {0, 21001, 30000}

Qtys == {-1, 0, 1}

CalcForms ==
    { MkForm("", <<0, 0, 0, 0>>, "", "", "---", "", "Waiting") }
    \cup { MkForm("PO1", <<hp, rq, sp, sq>>, "", "Ab", "BD", "K1", "Waiting") :
             hp \in Prices, rq \in Qtys, sp \in Prices, sq \in {0, 1} }
    \cup { MkForm("PO1", <<30000, 1, 21001, 1>>, " late ", "Ab", "BD", "K1", "Waiting") }

NextCalc ==
    \/ \E f \in FormChoices(CalcForms) : SubmitForm(f, CalcRows)
    \/ CancelEdit
    \/ \E i \in 0..(CalcRows - 1) : EditSelected(i)
    \/ ClearAllData

SpecCalc == Init /\ [][NextCalc]_vars

\* ---- deletion in stores of several rows
DelForms ==
    { MkForm("PO1", fin, "", "Ab", "BD", "K1", "Waiting") :
        fin \in LifeFin \cup {<<0, 0, 0, 0>>} }

NextDelete ==
    \/ \E f \in FormChoices(DelForms) : SubmitForm(f, DelRows)
    \/ \E i \in 0..(DelRows - 1) : DeleteSelected(i)

SpecDelete == Init /\ [][NextDelete]_vars

\* ---- the filters over stores of form-written and imported rows
FilterForms ==
    { MkForm("PO1", fin, "", t[1], t[2], "K1", "Waiting") :
        fin \in {<<10000, 10, 6500, 10>>, <<30000, 1, 21001, 1>>},
        t \in {<<"Ab", "BD">>, <<"A.b", "---">>} }

NextFilter ==
    \/ \E f \in FormChoices(FilterForms) : SubmitForm(f, MaxRows)
    \/ LoadFile(UploadedFile(1))
    \/ \E flt \in FilterChoices : SetFilters(flt)
    \/ ClearAllData

SpecFilter == Init /\ [][NextFilter]_vars

\* ---- the form over stores that were typed, imported and reloaded
NextForm ==
    \/ \E f \in FormChoices(LifeForms) : SubmitForm(f, MaxRows)
    \/ CancelEdit
    \/ \E i \in 0..(MaxRows - 1) : EditSelected(i)
    \/ \E i \in 0..(MaxRows - 1) : DeleteSelected(i)
    \/ LoadFile(UploadedFile(1))
    \/ ClearAllData
    \/ Restart

SpecForm == Init /\ [][NextForm]_vars

\* ---- the column mapping: a click and the run it starts are two steps, and
\* nothing else is accepted between them; Streamlit always runs the script
\* after a click
NextMapping ==
    \/ ~map_ui.clicked /\ \E f \in FormChoices(LifeForms) : SubmitForm(f, MaxRows)
    \/ ~map_ui.clicked /\ \E n \in FileIds : LoadFile(UploadedFile(n))
    \/ ~map_ui.clicked /\ Restart
    \/ ChangeMapping
    \/ ClickApplyMapping
    \/ ApplyMappingRun

SpecMapping == Init /\ [][NextMapping]_vars /\ WF_vars(ApplyMappingRun)

\* ---- process starts over files that are absent, written or damaged
NextStart ==
    \/ \E f \in FormChoices(LifeForms) : SubmitForm(f, MaxRows)
    \/ \E i \in 0..(MaxRows - 1) : DeleteSelected(i)
    \/ LoadFile(UploadedFile(1))
    \/ ClearAllData
    \/ CorruptFile
    \/ Restart

SpecStart == Init /\ [][NextStart]_vars

\* ================================================================ claims
Abs(x) == IF x < 0 THEN -x ELSE x

Accepted ==
    last_op.op \in {"Entry added successfully!", "Row updated successfully!"}

\* the row the last accepted submission wrote
WrittenRow == df.rows[last_op.pos + 1]

\* Total, Sub Total, Profit and Margin% of r follow from its four inputs:
\* Margin% is the hundredth of a percent nearest to Profit / Total x 100,
\* and 0 when Total is 0
DerivedOK(r) ==
    LET t == r["Po Huawei (Unit Price)"] * r["Requested Qty"]
        u == r["Po Subcon (Unit Price)"] * r["Qty"]
    IN  /\ r["Total"] = t
        /\ r["Sub Total"] = u
        /\ r["Profit"] = t - u
        /\ IF t = 0 THEN r["Margin%"] = 0
           ELSE 2 * Abs(r["Margin%"] * t - (t - u) * 10000) <= Abs(t)

\* C1: every accepted form submission (create or update) with non-negative
\* unit prices and integer quantities stores Total = client price x
\* requested qty, Sub Total = subcon price x qty, Profit = Total - Sub Total
\* and Margin% = Profit / Total x 100 rounded to 2 decimals, 0 when Total = 0.
C1_DerivedFields == Accepted => DerivedOK(WrittenRow)

\* an update was accepted whose margin, 29.9966...%, is stored rounded up
C1_Witness ==
    /\ last_op.op = "Row updated successfully!"
    /\ WrittenRow["Total"] = 30000
    /\ WrittenRow["Profit"] = 8999
    /\ WrittenRow["Margin%"] = 3000

\* C2: for every record written by the form with a blank margin reason, the
\* Status text is the bucket (>= 30 Healthy, >= 20 Below Target, else Loss
\* Risk) of the rounded Margin% that is stored.
C2_StatusIsBucketOfStored ==
    (Accepted /\ Strip(WrittenRow["Margin Reason"]) = "")
        => WrittenRow["Status"] = Bucket(WrittenRow["Margin%"])

\* C3: in every reachable state every record's Total, Sub Total, Profit and
\* Margin% are consistent with its unit prices and quantities.
C3_DerivedConsistent ==
    \A i \in 1..NRows(df) : DerivedOK(df.rows[i])

MutatingOps ==
    {"Entry added successfully!", "Row updated successfully!", "delete",
     "Loaded", "clear"}

\* the same rows in the same order, cell for cell, a "Date of PR" being the
\* same when it is the same calendar day
SameRows(a, b) ==
    /\ NRows(a) = NRows(b)
    /\ \A i \in 1..NRows(a) : \A c \in RangeOf(a.cols) :
          IF c = "Date of PR" THEN a.rows[i][c].v = b.rows[i][c].v
          ELSE a.rows[i][c] = b.rows[i][c]

\* C4: after every operation that mutates the Record Store (create, update,
\* delete, import, clear) the durable file holds exactly the current
\* records, so that a restart reloads the store as it was.
C4_FileHoldsStore ==
    last_op.op \in MutatingOps => SameRows(load_data(data_file).df, df)

\* C5: deleting position k of a store of n records leaves n - 1 records,
\* those before k in place and each record after k one position down; a
\* delete addressed to a position out of range leaves the store unchanged.
C5_DeleteShifts ==
    [][ /\ last_op'.op = "delete" =>
            LET k == last_op'.pos
                n == NRows(df)
            IN  /\ k \in 0..(n - 1)
                /\ NRows(df') = n - 1
                /\ df'.cols = df.cols
                /\ \A j \in 0..(n - 1) :
                      /\ j < k => df'.rows[j + 1] = df.rows[j + 1]
                      /\ j > k => df'.rows[j] = df.rows[j + 1]
        /\ \A k \in NRows(df)..(DelRows + 1) : DropRow(df, k) = df
      ]_vars

\* the middle one of three different records was deleted
C5_Witness ==
    /\ last_op.op = "delete"
    /\ last_op.pos = 1
    /\ NRows(df) = 2
    /\ df.rows[1] # df.rows[2]

\* C6: a form submission, in add mode or in edit mode, whose PO Huawei is
\* empty leaves the store, the durable file and the edit index as they were
\* and shows the error.
C6_EmptyPoRejected ==
    [][ \A f \in FormChoices(LifeForms) :
          (f.po_huawei = "" /\ SubmitForm(f, MaxRows)) =>
              /\ UNCHANGED <<df, source_filename, data_file, edit_index>>
              /\ last_op'.op = "PO Huawei is required!"
      ]_vars

\* a submission was rejected in edit mode, with records stored and saved
C6_Witness ==
    /\ last_op.op = "PO Huawei is required!"
    /\ edit_index # None
    /\ NRows(df) > 0
    /\ data_file.exists

\* the same records, field for field, a "Date of PR" being the same when it
\* is the same calendar day
SameRecords(a, b) ==
    /\ a.cols = b.cols
    /\ NRows(a) = NRows(b)
    /\ \A i \in 1..NRows(a) : \A c \in RangeOf(a.cols) :
          IF c = "Date of PR" THEN a.rows[i][c].v = b.rows[i][c].v
          ELSE a.rows[i][c] = b.rows[i][c]

\* C7: entering edit mode on any record and submitting the form with no
\* field changed leaves the store observably unchanged.
C7_UntouchedUpdateIsIdentity ==
    [][ (edit_index # None /\ RenderOK)
            => \A f \in FormDefaults :
                   SubmitForm(f, MaxRows) => SameRecords(df', df) ]_vars

\* a date read back is the date that was saved: a calendar date again, of
\* the same day; any other cell is read back as it was
SameDate(back, saved) ==
    IF saved.k \in {"date", "ts"}
    THEN back.k \in {"date", "ts"} /\ back.v = saved.v
    ELSE back = saved

\* C8: for every reachable store, the empty one included, save then load
\* gives the same records in the same order with the same columns, each
\* Date of PR reparsed to the calendar date it had.
C8_RoundTrip ==
    LET back == load_data(Written(df, source_filename)).df
    IN  /\ back.cols = df.cols
        /\ NRows(back) = NRows(df)
        /\ \A i \in 1..NRows(df) : \A c \in RangeOf(df.cols) :
              IF c = "Date of PR" THEN SameDate(back.rows[i][c], df.rows[i][c])
              ELSE back.rows[i][c] = df.rows[i][c]

\* the criteria as the claim reads them: status equality, case-insensitive
\* substring on Project, Vendor Name and Site ID, margin bucket; an absent
\* criterion holds of every record
Satisfies(r, flt) ==
    /\ flt.status = "All" \/ r["Status"] = flt.status
    /\ flt.project = "" \/ ContainsLiteral(r["Project"], flt.project)
    /\ flt.vendor = "" \/ ContainsLiteral(r["Vendor Name"], flt.vendor)
    /\ flt.site = "" \/ ContainsLiteral(r["Site ID"], flt.site)
    /\ \/ flt.margin = "All"
       \/ flt.margin = "Loss Risk (<20%)" /\ Bucket(r["Margin%"]) = "Loss Risk"
       \/ flt.margin = "Below Target (20-29%)" /\ Bucket(r["Margin%"]) = "Below Target"
       \/ flt.margin = "Healthy (>=30%)" /\ Bucket(r["Margin%"]) = "Healthy"

\* C9: the filtered view is exactly the records of the store that satisfy
\* every active criterion, in store order (the whole store when no criterion
\* is active).
C9_ViewIsFilteredSubsequence ==
    [i \in 1..Len(filtered_df) |-> filtered_df[i].idx]
        = SelectSeq([i \in 1..NRows(df) |-> i - 1],
                    LAMBDA p : Satisfies(df.rows[p + 1], filters))

\* every canonical column name is among the labels of the header, letter
\* case aside
HeaderHasEveryCanonical(header) ==
    \A i \in 1..Len(Required) :
        \E p \in 1..Len(header) : header[p].name = Required[i]

\* C10: loading a sheet whose header has every canonical column name (case
\* aside) and n >= 1 data rows replaces the store by those n records in
\* sheet order under exactly the canonical columns, and saves it; a sheet
\* with a column missing or without data rows does not replace the store.
C10_ExactImport ==
    [][ \A n \in FileIds :
          LoadFile(UploadedFile(n)) =>
            LET file == UploadedFile(n)
            IN  IF HeaderHasEveryCanonical(file.header) /\ Len(file.data) >= 1
                THEN /\ df'.cols = Required
                     /\ NRows(df') = Len(file.data)
                     /\ \A i \in 1..Len(file.data) :
                           df'.rows[i]["Po Huawei"] = file.data[i]["Po Huawei"]
                     /\ data_file' = Written(df', source_filename')
                ELSE df' = df
      ]_vars

\* the table the operator confirmed: a canonical column that has a source
\* column holds that column's values, any other its typed default
MappedTable(file) ==
    [cols |-> Required,
     rows |-> [r \in 1..Len(file.data) |->
                [col \in RangeOf(Required) |->
                   IF \E j \in 1..Len(file.header) : file.header[j].name = col
                   THEN file.data[r][col]
                   ELSE TypedDefault(col)]]]

\* C11: once the operator has clicked Apply Mapping & Load for a sheet in
\* reconciliation mode, the store eventually is the mapped table of that
\* sheet, under the sheet's name, and the durable file holds it.
C11_MappingEventuallyLoaded ==
    \A n \in FileIds :
        (map_ui.clicked /\ map_ui.file = UploadedFile(n).name)
            ~> /\ df = MappedTable(UploadedFile(n))
               /\ source_filename = UploadedFile(n).name
               /\ data_file = Written(df, source_filename)

\* C12: at process start the store is the record collection last written
\* to the durable file, under its filename, or, when the file is absent or
\* cannot be parsed, the empty collection under the default filename; in
\* every case it has the canonical columns.
C12_StartupStore ==
    last_op.op = "start" =>
        /\ df.cols = Required
        /\ IF data_file.exists /\ data_file.parses
           THEN /\ NRows(df) = Len(data_file.df)
                /\ \A i \in 1..NRows(df) : \A c \in RangeOf(Required) :
                      df.rows[i][c] = data_file.df[i].vals[c]
                /\ source_filename = data_file.source_filename
           ELSE /\ df = init_df
                /\ source_filename = DefaultFilename

\* C13: in every reachable state the edit index is unset or a position of
\* the current store, 0 <= edit_index < number of records.
C13_EditIndexInRange ==
    edit_index # None => (0 <= edit_index /\ edit_index < NRows(df))

\* C14: an update submitted in edit mode replaces the record that was
\* selected when edit mode was entered, and no other record, whatever was
\* deleted or imported in between.
C14_UpdateReplacesSelected ==
    [][ \A f \in FormChoices(LifeForms) :
          (edit_index # None /\ f.po_huawei # "" /\ SubmitForm(f, MaxRows)) =>
              /\ selected = <<df.rows[edit_index + 1]>>
              /\ \A j \in 1..NRows(df) :
                    j # edit_index + 1 => df'.rows[j] = df.rows[j]
      ]_vars

====
